---- MODULE Spec2Model ----
(***************************************************************************)
(* Gazeta: collection of messages from messaging-platform sources over a   *)
(* daily window, deduplicating storage, chat digests and the daily report. *)
(*                                                                         *)
(* Timestamps are integers (one unit is one instant the window boundaries  *)
(* can fall on).  Python's None is the value None; strings are strings.    *)
(* The bookkeeping columns last_updated and created_at are written by the  *)
(* code but read by nothing in the pipeline and are left out of the rows.  *)
(***************************************************************************)
EXTENDS Integers, Sequences, FiniteSets, TLC

VARIABLES
    sources,    \* table sources: set of rows [id, identifier, type, title, username]
    messages,   \* table messages: set of committed rows
    ret,        \* the last call of a storage or helper operation and what it returned
    run,        \* locals of the collection / digest run in progress
    conns,      \* per run instance: its connection and its position in add_message
    writer,     \* the connection holding the database write lock (0: nobody)
    reports     \* table reports: set of rows [id, date, content, sent_at]

vars == <<sources, messages, ret, run, conns, writer, reports>>

None == "<None>"
NoSourceId == 0
Unused == "<unused>"

\* Python truthiness of an Optional[str]
Truthy(x) == x # None /\ x # ""


RECURSIVE SumSeq(_)
SumSeq(s) == IF s = <<>> THEN 0 ELSE Head(s) + SumSeq(Tail(s))

(***************************************************************************)
(* Bounds of the model                                                     *)
(***************************************************************************)
MaxMsgId == 2      \* platform message ids are 1..MaxMsgId
MaxDate == 2       \* timestamps are 0..MaxDate
MaxRows == 2       \* rows the message table may hold in the storage specifications
MaxRuns == 2       \* run instances writing to the same database file
MaxCalls == 2      \* add_message calls one run instance makes
MaxSources == 2    \* configured sources of one collection
MaxStream == 2     \* messages the platform streams for one source
MaxFetch == 4      \* messages of the stream when get_messages is taken alone
MaxTexts == 650    \* representative texts of one chat
MaxLines == 3      \* lines of a text handed to _split_message

Identifiers == {"@news", "@talk"}
Kinds == {"channel", "chat"}
Titles == {None, "", "News", "Talk"}
Usernames == {None, "", "news"}
MsgIds == 1..MaxMsgId
Dates == 0..MaxDate
\* body text and sender of a message, as _extract_message_data produces them:
\* a post without sender, a message without text, a message with both
Bodies == <<[text |-> "hi", sender_id |-> None, sender_name |-> None],
            [text |-> "", sender_id |-> "uid7", sender_name |-> "Ann"],
            [text |-> "yo", sender_id |-> "uid7", sender_name |-> "Ann"]>>
\* the body the platform holds for a message: fixed by its id and timestamp
BodyOf(item) == Bodies[((item.message_id + item.date) % 3) + 1]
Link(mid) == <<"https://t.me/c", mid>>

(***************************************************************************)
(* Database (src/src/database.py)                                          *)
(***************************************************************************)

\* INTEGER PRIMARY KEY AUTOINCREMENT; no row is ever deleted
NextId(table) == Cardinality(table) + 1

SourceRow(srcs, identifier) == CHOOSE s \in srcs : s.identifier = identifier

HasSource(srcs, identifier) == \E s \in srcs : s.identifier = identifier

\* SQL COALESCE(?, column): the argument unless it is NULL
COALESCE(arg, old) == IF arg = None THEN old ELSE arg

\* an upsert that also sets type = excluded.type on conflict
UpsertSourceWithType(srcs, identifier, source_type, title, username) ==
    IF HasSource(srcs, identifier)
    THEN {IF s.identifier = identifier
          THEN [s EXCEPT !.type = source_type,
                         !.title = COALESCE(title, s.title),
                         !.username = COALESCE(username, s.username)]
          ELSE s : s \in srcs}
    ELSE srcs \cup {[id |-> NextId(srcs), identifier |-> identifier,
                     type |-> source_type, title |-> title, username |-> username]}

\* INSERT ... ON CONFLICT(identifier) DO UPDATE SET title = COALESCE(?, title), ...
UpsertSource(srcs, identifier, source_type, title, username) ==
    IF HasSource(srcs, identifier)
    THEN {IF s.identifier = identifier
          THEN [s EXCEPT !.title = COALESCE(title, s.title),
                         !.username = COALESCE(username, s.username)]
          ELSE s : s \in srcs}
    ELSE srcs \cup {[id |-> NextId(srcs), identifier |-> identifier,
                     type |-> source_type, title |-> title, username |-> username]}

\* Database.add_source: the upsert, then SELECT id
add_source(srcs, identifier, source_type, title, username) ==
    LET after == UpsertSource(srcs, identifier, source_type, title, username)
    IN [sources |-> after, id |-> SourceRow(after, identifier).id]

\* Database.get_source_by_identifier
get_source_by_identifier(srcs, identifier) ==
    IF HasSource(srcs, identifier) THEN SourceRow(srcs, identifier) ELSE None

NoUniqueConstraint(msgs, source_id, message_id) == FALSE

\* UNIQUE(source_id, message_id) of table messages
ViolatesUnique(msgs, source_id, message_id) ==
    \E m \in msgs : m.source_id = source_id /\ m.message_id = message_id

MessageRow(msgs, source_id, message_id, date, body) ==
    [id |-> NextId(msgs), source_id |-> source_id, message_id |-> message_id,
     date |-> date, text |-> body.text, link |-> Link(message_id),
     sender_id |-> body.sender_id, sender_name |-> body.sender_name]

ReturnTrueOnIntegrityError == TRUE

\* except aiosqlite.IntegrityError: return False
OnIntegrityError == FALSE

\* INSERT OR REPLACE: a stored row of the pair gives way to the new one
InsertOrReplace(msgs, source_id, message_id, date, body) ==
    [messages |-> {m \in msgs : m.source_id # source_id \/ m.message_id # message_id}
                  \cup {MessageRow(msgs, source_id, message_id, date, body)},
     inserted |-> TRUE, raised |-> FALSE]

\* Database.add_message on one connection: INSERT, commit, True; an
\* IntegrityError (the UNIQUE constraint) is caught and gives False
add_message(msgs, source_id, message_id, date, body) ==
    IF ViolatesUnique(msgs, source_id, message_id)
    THEN [messages |-> msgs, inserted |-> OnIntegrityError, raised |-> FALSE]
    ELSE [messages |-> msgs \cup {MessageRow(msgs, source_id, message_id, date, body)},
          inserted |-> TRUE, raised |-> FALSE]

\* ORDER BY m.date; rows of equal date come in rowid order
RECURSIVE OrderByDate(_)
OrderByDate(rows) ==
    IF rows = {} THEN <<>>
    ELSE LET first == CHOOSE r \in rows : \A q \in rows :
                          r.date < q.date \/ (r.date = q.date /\ r.id <= q.id)
         IN <<first>> \o OrderByDate(rows \ {first})

\* one row of SELECT m.*, s.identifier, s.type, s.title, s.username
Joined(m, s) ==
    [id |-> m.id, source_id |-> m.source_id, message_id |-> m.message_id,
     date |-> m.date, text |-> m.text, link |-> m.link,
     sender_id |-> m.sender_id, sender_name |-> m.sender_name,
     identifier |-> s.identifier, type |-> s.type, title |-> s.title,
     username |-> s.username]

WhereEndInclusive(m, start_date, end_date) == m.date >= start_date /\ m.date <= end_date

\* WHERE m.date >= ? AND m.date < ?
WhereDate(m, start_date, end_date) == m.date >= start_date /\ m.date < end_date

\* Database.get_messages_by_date_range; `if source_id:` takes the filtered
\* query for a truthy source_id: NoSourceId stands for the falsy values None, 0
get_messages_by_date_range(srcs, msgs, start_date, end_date, source_id) ==
    LET filtered == source_id # NoSourceId
        rows == {Joined(m, s) : <<m, s>> \in
                    {p \in msgs \X srcs :
                        /\ p[1].source_id = p[2].id
                        /\ WhereDate(p[1], start_date, end_date)
                        /\ (filtered => p[1].source_id = source_id)}}
    IN OrderByDate(rows)

(***************************************************************************)
(* SpecLedger: the source ledger under any sequence of add_source calls;   *)
(* run remembers, for the claims, the type each identifier was first       *)
(* registered with                                                         *)
(***************************************************************************)
LedgerInit ==
    /\ sources = {}
    /\ messages = {}
    /\ ret = [op |-> "init"]
    /\ run = [i \in Identifiers |-> None]
    /\ conns = Unused
    /\ writer = 0
    /\ reports = {}

\* a call of Database.add_source; ret keeps the arguments, the row the
\* identifier had before the call (none: {}) and the returned id
AddSource(identifier, source_type, title, username) ==
    LET r == add_source(sources, identifier, source_type, title, username)
    IN /\ sources' = r.sources
       /\ ret' = [op |-> "add_source", identifier |-> identifier,
                  source_type |-> source_type, title |-> title,
                  username |-> username,
                  before |-> {s \in sources : s.identifier = identifier},
                  id |-> r.id]
       /\ run' = IF HasSource(sources, identifier) THEN run
                 ELSE [run EXCEPT ![identifier] = source_type]
       /\ UNCHANGED <<messages, conns, writer, reports>>

LedgerNext ==
    \E i \in Identifiers, k \in Kinds, t \in Titles, u \in Usernames :
        AddSource(i, k, t, u)

SpecLedger == LedgerInit /\ [][LedgerNext]_vars

(***************************************************************************)
(* SpecStore: the message store under any sequence of insert and window    *)
(* query calls; run is the set of (source, message-id) pairs inserted so   *)
(* far                                                                     *)
(***************************************************************************)
SourceIds == {s.id : s \in sources}

StoreInit ==
    /\ sources = {}
    /\ messages = {}
    /\ ret = [op |-> "init"]
    /\ run = {}
    /\ conns = Unused
    /\ writer = 0
    /\ reports = {}

\* the collector registers a source before it inserts its messages
RegisterSource(identifier) ==
    /\ ~HasSource(sources, identifier)
    /\ sources' = add_source(sources, identifier, "channel", "News", None).sources
    /\ ret' = [op |-> "add_source", identifier |-> identifier]
    /\ UNCHANGED <<messages, run, conns, writer, reports>>

\* a call of Database.add_message with the message the platform holds for
\* (message_id, date)
AddMessage(source_id, message_id, date) ==
    LET r == add_message(messages, source_id, message_id, date,
                         BodyOf([message_id |-> message_id, date |-> date]))
    IN /\ Cardinality(messages) < MaxRows \/ <<source_id, message_id>> \in run
       /\ messages' = r.messages
       /\ run' = run \cup {<<source_id, message_id>>}
       /\ ret' = [op |-> "add_message", source_id |-> source_id,
                  message_id |-> message_id, date |-> date,
                  first |-> <<source_id, message_id>> \notin run,
                  inserted |-> r.inserted, raised |-> r.raised]
       /\ UNCHANGED <<sources, conns, writer, reports>>

\* a call of Database.get_messages_by_date_range
GetMessagesByDateRange(start_date, end_date, source_id) ==
    /\ ret' = [op |-> "get_messages_by_date_range", start_date |-> start_date,
               end_date |-> end_date, source_id |-> source_id,
               result |-> get_messages_by_date_range(sources, messages,
                             start_date, end_date, source_id)]
    /\ UNCHANGED <<sources, messages, run, conns, writer, reports>>

StoreNext ==
    \/ \E i \in Identifiers : RegisterSource(i)
    \/ \E sid \in SourceIds, mid \in MsgIds, d \in Dates :
           AddMessage(sid, mid, d)
    \/ \E sid \in SourceIds \cup {NoSourceId} :
           GetMessagesByDateRange(1, MaxDate, sid)

SpecStore == StoreInit /\ [][StoreNext]_vars

(***************************************************************************)
(* Claims on the message store (SpecStore) and the ledger (SpecLedger)     *)
(***************************************************************************)
RowsOfPair(source_id, message_id) ==
    {m \in messages : m.source_id = source_id /\ m.message_id = message_id}

\* how often the pair occurs in the rows a window query returns
Occurrences(result, source_id, message_id) ==
    Cardinality({i \in 1..Len(result) :
        result[i].source_id = source_id /\ result[i].message_id = message_id})

\* C1: the first insert of a (source, message-id) pair returns inserted=true,
\* every later insert of the pair returns inserted=false without raising, the
\* store holds exactly one row for every pair inserted so far, and a window
\* query covering the row's timestamp returns the pair exactly once.
C1_IdempotentInsert ==
    /\ ret.op = "add_message" =>
           /\ ~ret.raised
           /\ ret.inserted = ret.first
    /\ \A m \in messages : <<m.source_id, m.message_id>> \in run
    /\ \A p \in run :
           /\ Cardinality(RowsOfPair(p[1], p[2])) = 1
           /\ \A m \in RowsOfPair(p[1], p[2]) :
                 \A sid \in {NoSourceId, p[1]} :
                    Occurrences(get_messages_by_date_range(sources, messages,
                                    m.date, m.date + 1, sid), p[1], p[2]) = 1

\* C1 witness: a pair inserted before was inserted again and got inserted=false
C1_Witness ==
    /\ ret.op = "add_message"
    /\ ~ret.first
    /\ ~ret.inserted
    /\ Cardinality(RowsOfPair(ret.source_id, ret.message_id)) = 1

\* the stored messages a window [start, end) with an optional source covers
InWindow(start_date, end_date, source_id) ==
    {m \in messages : /\ start_date <= m.date
                      /\ m.date < end_date
                      /\ (source_id # NoSourceId => m.source_id = source_id)}

WindowResultExact(result, start_date, end_date, source_id) ==
    /\ Len(result) = Cardinality(InWindow(start_date, end_date, source_id))
    /\ \A m \in InWindow(start_date, end_date, source_id) :
          \E i \in 1..Len(result) :
             /\ result[i].id = m.id
             /\ result[i].source_id = m.source_id
             /\ result[i].message_id = m.message_id
             /\ result[i].date = m.date
             /\ result[i].text = m.text
             /\ result[i].sender_name = m.sender_name
    /\ \A i, j \in 1..Len(result) : i < j => result[i].date <= result[j].date

\* C3: the window query returns exactly the stored messages with
\* start <= timestamp < end (of the given source when one is given), each once,
\* in ascending timestamp order: a message at start is in, one at end is out.
C3_WindowQuery ==
    /\ \A start_date \in Dates, end_date \in Dates \cup {MaxDate + 1},
          sid \in SourceIds \cup {NoSourceId} :
          WindowResultExact(get_messages_by_date_range(sources, messages,
                                start_date, end_date, sid),
                            start_date, end_date, sid)
    /\ ret.op = "get_messages_by_date_range" =>
          WindowResultExact(ret.result, ret.start_date, ret.end_date, ret.source_id)

\* C3 witness: a query whose window has one message exactly at start (returned)
\* and one exactly at end (not returned)
C3_Witness ==
    /\ ret.op = "get_messages_by_date_range"
    /\ \E m \in messages : /\ m.date = ret.start_date
                            /\ \E i \in 1..Len(ret.result) : ret.result[i].id = m.id
    /\ \E m \in messages : /\ m.date = ret.end_date
                            /\ \A i \in 1..Len(ret.result) : ret.result[i].id # m.id

\* C7: for an identifier that already has a row, add_source with a missing or
\* empty title (handle) leaves an existing non-empty title (handle) unchanged.
C7_EmptyNeverOverwrites ==
    ret.op = "add_source" =>
       \A old \in ret.before :
          LET new == SourceRow(sources, ret.identifier)
          IN /\ (~Truthy(ret.title) /\ Truthy(old.title)) => new.title = old.title
             /\ (~Truthy(ret.username) /\ Truthy(old.username)) =>
                    new.username = old.username

\* C20: the type of a source row is the one it was created with, whatever
\* type later add_source calls for the identifier pass; the type a message
\* of the source is read back with (the joined column the routing of a run
\* classifies by) is therefore that same type after any number of calls.
C20_KindNeverChanges ==
    \A s \in sources :
       /\ s.type = run[s.identifier]
       /\ Joined(MessageRow({}, s.id, 1, 1, Bodies[1]), s).type = run[s.identifier]

\* C20 witness: add_source was called with another type for an identifier
\* that has a row, and the row keeps the type it had
C20_Witness ==
    /\ ret.op = "add_source"
    /\ \E old \in ret.before :
          /\ old.type # ret.source_type
          /\ SourceRow(sources, ret.identifier).type = old.type
          /\ SourceRow(sources, ret.identifier).id = old.id

\* C19: a message row, once stored, is never updated or deleted: every step
\* (an insert, a re-insert of a stored pair with another timestamp, body and
\* sender, a source upsert, a query) leaves every stored row as it is, so
\* the set of message rows only grows.
C19_MessageRowsImmutable == [][\A m \in messages : m \in messages']_vars

\* C19 witness: a stored pair was inserted again with another timestamp (and
\* with it another body and sender); the call returned False and the row
\* still carries its first timestamp and body
C19_Witness ==
    /\ ret.op = "add_message"
    /\ ~ret.first
    /\ ~ret.inserted
    /\ \E m \in RowsOfPair(ret.source_id, ret.message_id) :
          /\ m.date # ret.date
          /\ m.text # BodyOf([message_id |-> ret.message_id, date |-> ret.date]).text
          /\ m.sender_name #
                BodyOf([message_id |-> ret.message_id, date |-> ret.date]).sender_name

(***************************************************************************)
(* SpecRace: several run instances, each with its own connection to the    *)
(* same database file, calling add_message for the same source.            *)
(* A connection's INSERT takes the database write lock (SQLite allows one  *)
(* writer); the lock is given up by commit or by closing the connection.   *)
(* add_message does not roll back after an IntegrityError, so the          *)
(* connection keeps its open transaction and the lock.  A connection that  *)
(* finds the lock taken either gets it later (the INSERT step when the     *)
(* lock is free) or gives up when the busy timeout expires, which raises   *)
(* OperationalError out of add_message.                                    *)
(***************************************************************************)
Runs == 1..MaxRuns

RaceSource == [id |-> 1, identifier |-> "@news", type |-> "channel",
               title |-> "News", username |-> None]

RaceInit ==
    /\ sources = {RaceSource}
    /\ messages = {}
    /\ ret = [op |-> "init"]
    /\ run = [true_count |-> [mid \in MsgIds |-> 0],
              true_by |-> [mid \in MsgIds |-> {}],
              false_by |-> [mid \in MsgIds |-> {}],
              issued_by |-> [mid \in MsgIds |-> {}]]
    /\ conns = [p \in Runs |-> [pc |-> "idle", pending |-> {}, calls |-> 0]]
    /\ writer = 0
    /\ reports = {}

Calling(p) == conns[p].pc = "idle" /\ conns[p].calls < MaxCalls

\* run keeps, per message id, which run instances called add_message for it
\* (issued_by), how many of the calls returned True and which run instances
\* got True and which got False
Issued(p, message_id) == [run EXCEPT !.issued_by[message_id] = @ \cup {p}]

Returned(log, p, message_id, inserted) ==
    IF inserted
    THEN [log EXCEPT !.true_count[message_id] = @ + 1,
                     !.true_by[message_id] = @ \cup {p}]
    ELSE [log EXCEPT !.false_by[message_id] = @ \cup {p}]

\* cursor.execute(INSERT ...) of add_message with the write lock available
ExecuteInsert(p, message_id) ==
    /\ Calling(p)
    /\ writer \in {0, p}
    /\ writer' = p
    /\ IF ViolatesUnique(messages, RaceSource.id, message_id)
       THEN /\ conns' = [conns EXCEPT ![p].calls = @ + 1]
            /\ run' = Returned(Issued(p, message_id), p, message_id, OnIntegrityError)
       ELSE /\ conns' = [conns EXCEPT ![p].calls = @ + 1,
                            ![p].pc = "executed",
                            ![p].pending = {MessageRow(messages, RaceSource.id,
                                message_id, p, BodyOf([message_id |-> message_id,
                                                       date |-> p]))}]
            /\ run' = Issued(p, message_id)
    /\ UNCHANGED <<sources, messages, ret, reports>>

\* cursor.execute(INSERT ...) while another connection holds the write lock
\* until the busy timeout expires: OperationalError leaves add_message
InsertLocked(p, message_id) ==
    /\ Calling(p)
    /\ writer \notin {0, p}
    /\ conns' = [conns EXCEPT ![p].calls = @ + 1]
    /\ run' = Issued(p, message_id)
    /\ UNCHANGED <<sources, messages, ret, writer, reports>>

\* connection.commit() and return True
CommitInsert(p) ==
    /\ conns[p].pc = "executed"
    /\ messages' = messages \cup conns[p].pending
    /\ writer' = 0
    /\ conns' = [conns EXCEPT ![p].pc = "idle", ![p].pending = {}]
    /\ run' = Returned(run, p, (CHOOSE m \in conns[p].pending : TRUE).message_id, TRUE)
    /\ UNCHANGED <<sources, ret, reports>>

\* Database.disconnect at the end of the run: an open transaction is rolled back
Disconnect(p) ==
    /\ conns[p].pc = "idle"
    /\ conns' = [conns EXCEPT ![p].pc = "closed"]
    /\ writer' = IF writer = p THEN 0 ELSE writer
    /\ UNCHANGED <<sources, messages, ret, run, reports>>

RaceNext ==
    \E p \in Runs :
        \/ \E mid \in MsgIds : ExecuteInsert(p, mid)
        \/ \E mid \in MsgIds : InsertLocked(p, mid)
        \/ CommitInsert(p)
        \/ Disconnect(p)

SpecRace == RaceInit /\ [][RaceNext]_vars

AllClosed == \A p \in Runs : conns[p].pc = "closed"

\* C2: when two or more run instances issue insert for the same (source,
\* message-id) pair, in any interleaving at most one of the inserts returns
\* inserted=true, and once the instances have finished the store holds
\* exactly one row for the pair.
C2_RaceSafeInsert ==
    \A mid \in MsgIds :
        Cardinality(run.issued_by[mid]) >= 2 =>
            /\ run.true_count[mid] <= 1
            /\ AllClosed => Cardinality(RowsOfPair(RaceSource.id, mid)) = 1

\* C2, the part that holds: no pair has two rows or two inserts that returned
\* inserted=true, and a pair for which some insert returned has its row once
\* the instances have finished.
C2_NoDuplicate ==
    \A mid \in MsgIds :
        /\ run.true_count[mid] <= 1
        /\ Cardinality(RowsOfPair(RaceSource.id, mid)) <= 1
        /\ (AllClosed /\ run.true_by[mid] \cup run.false_by[mid] # {}) =>
              Cardinality(RowsOfPair(RaceSource.id, mid)) = 1

\* C2: two run instances inserted the same pair, one got true, the other
\* false, and both have finished
C2_BothReturned ==
    /\ AllClosed
    /\ \E mid \in MsgIds :
          \E p \in run.true_by[mid], q \in run.false_by[mid] : p # q

(***************************************************************************)
(* Messaging client (src/src/telegram_client.py) and collector             *)
(* (src/src/collector.py)                                                  *)
(***************************************************************************)

\* the streams of exactly n messages with ids in 1..max_id: newest first, and
\* a newer message has the larger platform id
RECURSIVE StreamsOfLen(_, _)
StreamsOfLen(n, max_id) ==
    IF n = 0 THEN {<<>>}
    ELSE {Append(p[1], p[2]) : p \in
            {q \in StreamsOfLen(n - 1, max_id) \X [message_id : 1..max_id, date : Dates] :
                q[1] # <<>> =>
                    /\ q[1][Len(q[1])].date >= q[2].date
                    /\ q[1][Len(q[1])].message_id > q[2].message_id}}

StreamsUpTo(max_len, max_id) == UNION {StreamsOfLen(n, max_id) : n \in 0..max_len}

Streams == StreamsUpTo(MaxStream, MaxMsgId)

\* TelegramService._extract_message_data
extract_message_data(item) ==
    [message_id |-> item.message_id, date |-> item.date,
     text |-> BodyOf(item).text, link |-> Link(item.message_id),
     sender_id |-> BodyOf(item).sender_id,
     sender_name |-> BodyOf(item).sender_name]

AtOrOlderThanStart(date, start_date) == date <= start_date

\* if message.date < start_date: break
OlderThanStart(date, start_date) == date < start_date

\* if message.date >= end_date: continue
NotBeforeEnd(date, end_date) == date >= end_date

\* the async for loop of get_messages from the i-th streamed message on;
\* consumed counts the messages taken from the stream
RECURSIVE IterMessages(_, _, _, _, _, _)
IterMessages(stream, i, start_date, end_date, fetch_fail_at, acc) ==
    IF i > Len(stream)
    THEN [messages |-> acc, consumed |-> Len(stream), raised |-> FALSE]
    ELSE IF fetch_fail_at = i + 1
    THEN [messages |-> acc, consumed |-> i, raised |-> TRUE]
    ELSE IF OlderThanStart(stream[i].date, start_date)
    THEN [messages |-> acc, consumed |-> i, raised |-> FALSE]
    ELSE IF NotBeforeEnd(stream[i].date, end_date)
    THEN IterMessages(stream, i + 1, start_date, end_date, fetch_fail_at, acc)
    ELSE IterMessages(stream, i + 1, start_date, end_date, fetch_fail_at,
                      Append(acc, extract_message_data(stream[i])))

\* TelegramService.get_messages: any exception is logged and gives []
get_messages(stream, start_date, end_date, fetch_fail_at) ==
    IF fetch_fail_at = 1
    THEN [messages |-> <<>>, consumed |-> 0, caught |-> TRUE]
    ELSE LET r == IterMessages(stream, 1, start_date, end_date, fetch_fail_at, <<>>)
         IN IF r.raised
            THEN [messages |-> <<>>, consumed |-> r.consumed, caught |-> TRUE]
            ELSE [messages |-> r.messages, consumed |-> r.consumed, caught |-> FALSE]

CountEveryInsert(is_new, new_messages) == new_messages + 1

\* if is_new: new_messages += 1
CountIfNew(is_new, new_messages) ==
    IF is_new THEN new_messages + 1 ELSE new_messages

\* the insert loop of collect_from_source from the k-th fetched message on
RECURSIVE InsertAll(_, _, _, _, _, _)
InsertAll(msgs, source_id, fetched, k, new_messages, insert_fail_at) ==
    IF k > Len(fetched)
    THEN [messages |-> msgs, new_messages |-> new_messages, raised |-> FALSE]
    ELSE IF insert_fail_at = k
    THEN [messages |-> msgs, new_messages |-> new_messages, raised |-> TRUE]
    ELSE LET m == fetched[k]
             r == add_message(msgs, source_id, m.message_id, m.date,
                     [text |-> m.text, sender_id |-> m.sender_id,
                      sender_name |-> m.sender_name])
         IN InsertAll(r.messages, source_id, fetched, k + 1,
                      CountIfNew(r.inserted, new_messages),
                      insert_fail_at)

ReturnPartialCounts(fetched_count, new_count) ==
    [count |-> fetched_count, new |-> new_count]

\* except Exception of collect_from_source: return 0, 0
ExceptCounts(fetched_count, new_count) == [count |-> 0, new |-> 0]

\* MessageCollector.collect_from_source; caught: its except branch ran;
\* raised: an exception left it (no path does); fetch: what get_messages did
collect_from_source(srcs, msgs, identifier, source_type, start_date, end_date, env) ==
    IF env.resolve_fails
    THEN [sources |-> srcs, messages |-> msgs, caught |-> TRUE, raised |-> FALSE,
          fetch |-> <<>>] @@ ExceptCounts(0, 0)
    ELSE LET a == add_source(srcs, identifier, source_type, env.entity.title,
                             env.entity.username)
             f == get_messages(env.stream, start_date, end_date, env.fetch_fail_at)
             ins == InsertAll(msgs, a.id, f.messages, 1, 0, env.insert_fail_at)
         IN IF ins.raised
            THEN [sources |-> a.sources, messages |-> ins.messages, caught |-> TRUE,
                  raised |-> FALSE, fetch |-> <<f>>]
                 @@ ExceptCounts(Len(f.messages), ins.new_messages)
            ELSE [sources |-> a.sources, messages |-> ins.messages, caught |-> FALSE,
                  raised |-> FALSE, fetch |-> <<f>>,
                  count |-> Len(f.messages), new |-> ins.new_messages]

KindOf(identifier) == IF identifier = "@talk" THEN "chat" ELSE "channel"

SourceLists ==
    UNION {[1..n -> {<<i, KindOf(i)>> : i \in Identifiers}] : n \in 0..MaxSources}

\* What the platform does for one source during one collection:
\*   resolve_fails  get_entity_info raises
\*   entity         title and username of the resolved entity
\*   stream         the messages iter_messages yields, newest first
\*   fetch_fail_at  0: the fetch meets no error; 1: get_entity inside
\*                  get_messages raises; k+1: obtaining or extracting the
\*                  k-th streamed message raises
\*   insert_fail_at 0: no storage error; k: the k-th add_message raises
\* The first exception ends the work on a source (a failed resolve leaves no
\* fetch, a failed fetch returns no message to insert), so an environment
\* holds at most one failure
Envs ==
    {e \in [resolve_fails : BOOLEAN,
            entity : {[title |-> "News", username |-> None]},
            stream : Streams,
            fetch_fail_at : 0..(MaxStream + 1),
            insert_fail_at : 0..MaxStream] :
        /\ e.resolve_fails => (e.stream = <<>> /\ e.fetch_fail_at = 0)
        /\ (e.resolve_fails \/ e.fetch_fail_at # 0) => e.insert_fail_at = 0
        /\ e.fetch_fail_at <= Len(e.stream) + 1
        /\ e.insert_fail_at <= Len(e.stream)}

(***************************************************************************)
(* SpecCollect: one call of collect_from_all_sources(sources, start, end), *)
(* one configured source per step.  run holds the locals of the call and,  *)
(* for the claims, what happened so far: attempted (identifiers in the     *)
(* order tried), hit (number of sources that met an exception in resolve,  *)
(* fetch or insert), hit_added (rows such sources added to the store),     *)
(* and for the sources that met no exception the sums clean_in_window      *)
(* (messages of their streams inside the window) and clean_added (rows     *)
(* they added to the store).                                               *)
(***************************************************************************)
CollectInit ==
    /\ sources = {}
    /\ messages = {}
    /\ ret = [op |-> "init"]
    /\ \E cfg \in SourceLists :
          run = [pc |-> "collecting", sources |-> cfg, start_date |-> 1,
                 end_date |-> MaxDate, i |-> 1, total_messages |-> 0,
                 total_new |-> 0, failed_sources |-> <<>>, stats |-> <<>>,
                 attempted |-> <<>>, hit |-> 0, hit_added |-> 0,
                 clean_in_window |-> 0, clean_added |-> 0, collected |-> {}]
    /\ conns = Unused
    /\ writer = 0
    /\ reports = {}

InWindowOfStream(stream, start_date, end_date) ==
    SelectSeq(stream, LAMBDA item : start_date <= item.date /\ item.date < end_date)

\* one iteration of the for loop of collect_from_all_sources
CollectSource(env) ==
    /\ run.pc = "collecting"
    /\ run.i <= Len(run.sources)
    /\ \E r \in {collect_from_source(sources, messages, run.sources[run.i][1],
                      run.sources[run.i][2], run.start_date, run.end_date, env)} :
          LET identifier == run.sources[run.i][1]
              hit == r.caught \/ r.raised \/ (\E j \in 1..Len(r.fetch) : r.fetch[j].caught)
              in_window == Len(InWindowOfStream(env.stream, run.start_date, run.end_date))
              added == Cardinality(r.messages \ messages)
              fetched == UNION {{<<identifier, r.fetch[j].messages[n].message_id>> :
                                    n \in 1..Len(r.fetch[j].messages)} :
                                j \in 1..Len(r.fetch)}
          IN /\ sources' = r.sources
             /\ messages' = r.messages
             /\ ret' = [op |-> "collect_from_source", identifier |-> identifier,
                        hit |-> hit, count |-> r.count, new |-> r.new,
                        added |-> added,
                        stored |-> \A f \in fetched : \E m \in r.messages :
                                      /\ m.source_id = SourceRow(r.sources, f[1]).id
                                      /\ m.message_id = f[2],
                        again |-> fetched # {} /\ fetched \subseteq run.collected]
             /\ run' = [run EXCEPT
                           !.i = @ + 1,
                           !.total_messages = IF r.raised THEN @ ELSE @ + r.count,
                           !.total_new = IF r.raised THEN @ ELSE @ + r.new,
                           !.failed_sources = IF r.raised THEN Append(@, identifier) ELSE @,
                           !.attempted = Append(@, identifier),
                           !.hit = IF hit THEN @ + 1 ELSE @,
                           !.hit_added = IF hit THEN @ + added ELSE @,
                           !.clean_in_window = IF hit THEN @ ELSE @ + in_window,
                           !.clean_added = IF hit THEN @ ELSE @ + added,
                           !.collected = IF hit THEN @ ELSE @ \cup fetched]
    /\ UNCHANGED <<conns, writer, reports>>

\* the end of collect_from_all_sources: the statistics it returns
CollectReturn ==
    /\ run.pc = "collecting"
    /\ run.i > Len(run.sources)
    /\ run' = [run EXCEPT !.pc = "collected",
                  !.stats = <<[total_sources |-> Len(run.sources),
                               total_messages |-> run.total_messages,
                               new_messages |-> run.total_new,
                               failed_sources |-> Len(run.failed_sources)]>>]
    /\ UNCHANGED <<sources, messages, ret, conns, writer, reports>>

CollectNext ==
    \/ \E env \in Envs : CollectSource(env)
    \/ CollectReturn

SpecCollect == CollectInit /\ [][CollectNext]_vars

\* C4: whatever subset of the configured sources raises in resolve, fetch or
\* insert, collect_from_all_sources tries every configured source exactly once
\* in order, returns (never raises), and its totals are the sums over the
\* sources that met no exception of the messages fetched and the rows added;
\* a source that met an exception is counted with zero fetched and zero new.
C4_FailureIsolated ==
    /\ (ret.op = "collect_from_source" /\ ret.hit) => (ret.count = 0 /\ ret.new = 0)
    /\ run.pc = "collecting" =>
          /\ run.i = Len(run.attempted) + 1
          /\ \A k \in 1..Len(run.attempted) : run.attempted[k] = run.sources[k][1]
    /\ run.pc = "collected" =>
          /\ run.attempted = [k \in 1..Len(run.sources) |-> run.sources[k][1]]
          /\ run.stats[1].total_sources = Len(run.sources)
          /\ run.stats[1].total_messages = run.clean_in_window
          /\ run.stats[1].new_messages = run.clean_added

\* C4 witness: a finished collection in which one source met an exception
\* after adding a row and another source contributed messages
C4_Witness ==
    /\ run.pc = "collected"
    /\ run.hit > 0
    /\ run.hit_added > 0
    /\ run.clean_added > 0
    /\ run.stats[1].new_messages > 0

\* C5: the number of failed sources in the result of collect equals the number
\* of sources that met an exception in resolve, fetch or insert.
C5_FailuresReported ==
    run.pc = "collected" => run.stats[1].failed_sources = run.hit

\* C18: a source collected without an exception has every fetched message
\* in the store, and its new count is the number of inserts that returned
\* True, the rows it added; for every source and for the totals new is at
\* most fetched; a source whose fetched messages were all fetched by an
\* earlier collection of it reports new = 0.
C18_NewCountsInserts ==
    /\ run.total_new <= run.total_messages
    /\ ret.op = "collect_from_source" =>
          /\ ret.new <= ret.count
          /\ ~ret.hit => (ret.stored /\ ret.new = ret.added)
          /\ (~ret.hit /\ ret.again) => ret.new = 0

\* C18 witness: the second collection of a source whose two messages the
\* first collection stored: two fetched, none new
C18_Witness ==
    /\ ret.op = "collect_from_source"
    /\ ~ret.hit
    /\ ret.again
    /\ ret.count = 2
    /\ ret.new = 0
    /\ run.total_messages = 4
    /\ run.total_new = 2

(***************************************************************************)
(* SpecFetch: get_messages alone, on any newest-first stream, any window   *)
(* and any failure of the collaborator                                     *)
(***************************************************************************)
FetchInit ==
    /\ sources = {}
    /\ messages = {}
    /\ \E stream \in StreamsUpTo(MaxFetch, MaxFetch), start_date \in Dates,
          end_date \in Dates, fetch_fail_at \in 0..(MaxFetch + 1) :
          /\ start_date <= end_date
          /\ fetch_fail_at <= Len(stream) + 1
          /\ ret = [op |-> "call", stream |-> stream, start_date |-> start_date,
                    end_date |-> end_date, fetch_fail_at |-> fetch_fail_at]
    /\ run = Unused
    /\ conns = Unused
    /\ writer = 0
    /\ reports = {}

\* a call of TelegramService.get_messages
GetMessages ==
    /\ ret.op = "call"
    /\ ret' = [ret EXCEPT !.op = "get_messages"] @@
               [fetch |-> get_messages(ret.stream, ret.start_date, ret.end_date,
                                       ret.fetch_fail_at)]
    /\ UNCHANGED <<sources, messages, run, conns, writer, reports>>

FetchNext == GetMessages

SpecFetch == FetchInit /\ [][FetchNext]_vars

\* the position of the first streamed message older than start (0: none)
FirstOlder(stream, start_date) ==
    IF \E i \in 1..Len(stream) : stream[i].date < start_date
    THEN CHOOSE i \in 1..Len(stream) :
            /\ stream[i].date < start_date
            /\ \A j \in 1..(i - 1) : stream[j].date >= start_date
    ELSE 0

\* C6: on a newest-first stream the fetch over [start, end) returns exactly the
\* streamed messages with start <= timestamp < end, in stream order: those with
\* timestamp >= end are skipped, and retrieval stops at the first message older
\* than start, taking nothing from the stream after it.
C6_FetchWindow ==
    (ret.op = "get_messages" /\ ~ret.fetch.caught) =>
        LET inside == InWindowOfStream(ret.stream, ret.start_date, ret.end_date)
            stop == FirstOlder(ret.stream, ret.start_date)
        IN /\ Len(ret.fetch.messages) = Len(inside)
           /\ \A i \in 1..Len(inside) :
                 /\ ret.fetch.messages[i].message_id = inside[i].message_id
                 /\ ret.fetch.messages[i].date = inside[i].date
           /\ ret.fetch.consumed = IF stop = 0 THEN Len(ret.stream) ELSE stop

\* C6 witness: a fetch that skipped a message at or after end, returned one
\* inside the window (one of them exactly at start) and stopped at an older
\* message with more of the stream left
C6_Witness ==
    /\ ret.op = "get_messages"
    /\ ~ret.fetch.caught
    /\ \E i \in 1..Len(ret.stream) : ret.stream[i].date >= ret.end_date
    /\ \E i \in 1..Len(ret.fetch.messages) :
          ret.fetch.messages[i].date = ret.start_date
    /\ ret.fetch.consumed < Len(ret.stream)

(***************************************************************************)
(* Down-sampling of the representative texts                               *)
(* (src/src/digest_generator.py, generate_digest_for_chat)                 *)
(***************************************************************************)
max_messages == 200

\* a slice with a stride one larger
WiderStride(seq, step) ==
    [k \in 1..((Len(seq) + step) \div (step + 1)) |-> seq[(k - 1) * (step + 1) + 1]]

\* Python seq[::step]: the elements at 0-based positions 0, step, 2*step, ...
EveryNth(seq, step) ==
    [k \in 1..((Len(seq) + step - 1) \div step) |-> seq[(k - 1) * step + 1]]

NoTruncation(seq, n) == seq

\* Python seq[:n]
FirstN(seq, n) == IF Len(seq) <= n THEN seq ELSE SubSeq(seq, 1, n)

\* if len(message_texts) > max_messages: step = len // max_messages;
\* message_texts = message_texts[::step][:max_messages]
limit_messages(message_texts) ==
    IF Len(message_texts) > max_messages
    THEN LET step == Len(message_texts) \div max_messages
         IN FirstN(EveryNth(message_texts, step), max_messages)
    ELSE message_texts

(***************************************************************************)
(* SpecSample: the down-sampling on a list of n representative texts; a    *)
(* text is identified by its position in the list                          *)
(***************************************************************************)
SampleInit ==
    /\ sources = {}
    /\ messages = {}
    /\ \E n \in 0..MaxTexts : ret = [op |-> "call", n |-> n]
    /\ run = Unused
    /\ conns = Unused
    /\ writer = 0
    /\ reports = {}

LimitMessages ==
    /\ ret.op = "call"
    /\ ret' = [op |-> "limit_messages", n |-> ret.n,
               out |-> limit_messages([i \in 1..ret.n |-> i])]
    /\ UNCHANGED <<sources, messages, run, conns, writer, reports>>

SampleNext == LimitMessages

SpecSample == SampleInit /\ [][SampleNext]_vars

\* C8: for a list of more than 200 representative texts the list passed to the
\* summarizer has at most 200 entries and is an order-preserving subsequence
\* of the input: its entries are input positions in strictly increasing order.
C8_SampleIsSubsequence ==
    (ret.op = "limit_messages" /\ ret.n > max_messages) =>
        /\ Len(ret.out) <= max_messages
        /\ \A k \in 1..Len(ret.out) : ret.out[k] \in 1..ret.n
        /\ \A k \in 1..(Len(ret.out) - 1) : ret.out[k] < ret.out[k + 1]

\* C26: for every count of representative texts above 200 the stride
\* count // 200 is at least 1 and the list passed on has exactly 200
\* entries; a list of at most 200 texts is passed on unchanged.
C26_ExactlyCapEntries ==
    ret.op = "limit_messages" =>
        IF ret.n > max_messages
        THEN /\ ret.n \div max_messages >= 1
             /\ Len(ret.out) = max_messages
        ELSE ret.out = [i \in 1..ret.n |-> i]

\* C26 witness: 399 texts, stride 1: the first 200 are passed on
C26_Witness ==
    /\ ret.op = "limit_messages"
    /\ ret.n = 399
    /\ ret.n \div max_messages = 1
    /\ Len(ret.out) = 200
    /\ ret.out[200] = 200

\* C8 witness: 450 texts sampled with stride 2 down to 200
C8_Witness ==
    /\ ret.op = "limit_messages"
    /\ ret.n = 450
    /\ Len(ret.out) = 200
    /\ ret.out[2] = 3
    /\ ret.out[200] = 399

(***************************************************************************)
(* Splitting of a long text (src/src/telegram_client.py, _split_message)   *)
(*                                                                         *)
(* A text is given by the lengths of its lines (text.split("\n")).  A      *)
(* string built from the text is the sequence of its pieces: a newline, or *)
(* the characters from..to-1 of a line; the empty string is <<>>.          *)
(***************************************************************************)
Newline == [line |-> 0, from |-> 0, to |-> 1]

\* line[from:to] of the line-th line
Slice(line, from, to) ==
    IF to > from THEN <<[line |-> line, from |-> from, to |-> to]>> ELSE <<>>

StrLen(str) == SumSeq([k \in 1..Len(str) |-> str[k].to - str[k].from])

ExceedsWithoutNewline(cur_len, line_len, max_length) == cur_len + line_len > max_length

\* if len(current_part) + len(line) + 1 > max_length
Exceeds(cur_len, line_len, max_length) == cur_len + line_len + 1 > max_length

\* while len(line) > max_length: parts.append(line[:max_length]);
\* line = line[max_length:] -- from the offset `from` of the line on
RECURSIVE HardSplit(_, _, _, _, _)
HardSplit(parts, line, from, line_len, max_length) ==
    IF line_len - from > max_length
    THEN HardSplit(Append(parts, Slice(line, from, from + max_length)), line,
                   from + max_length, line_len, max_length)
    ELSE [parts |-> parts, current_part |-> Slice(line, from, line_len)]

\* the for loop of _split_message from the i-th line on
RECURSIVE SplitLines(_, _, _, _, _)
SplitLines(lines, i, parts, current_part, max_length) ==
    IF i > Len(lines)
    THEN IF current_part # <<>> THEN Append(parts, current_part) ELSE parts
    ELSE IF Exceeds(StrLen(current_part), lines[i], max_length)
    THEN LET flushed == IF current_part # <<>> THEN Append(parts, current_part)
                        ELSE parts
         IN IF lines[i] > max_length
            THEN LET h == HardSplit(flushed, i, 0, lines[i], max_length)
                 IN SplitLines(lines, i + 1, h.parts, h.current_part, max_length)
            ELSE SplitLines(lines, i + 1, flushed, Slice(i, 0, lines[i]), max_length)
    ELSE SplitLines(lines, i + 1, parts,
                    (IF current_part # <<>> THEN Append(current_part, Newline)
                     ELSE current_part) \o Slice(i, 0, lines[i]),
                    max_length)

\* TelegramService._split_message
split_message(lines, max_length) == SplitLines(lines, 1, <<>>, <<>>, max_length)

\* max_length = 4000 of send_message
max_length_of_send == 4000

\* line lengths around the budget
LineLengths ==
    {0, 1, max_length_of_send \div 2, max_length_of_send - 1, max_length_of_send,
     max_length_of_send + 1, 2 * max_length_of_send, 2 * max_length_of_send + 1}

(***************************************************************************)
(* SpecSplit: _split_message with the budget of send_message on any text   *)
(* of 1..MaxLines lines                                                    *)
(***************************************************************************)
SplitInit ==
    /\ sources = {}
    /\ messages = {}
    /\ \E n \in 1..MaxLines : \E lines \in [1..n -> LineLengths] :
          ret = [op |-> "call", lines |-> lines]
    /\ run = Unused
    /\ conns = Unused
    /\ writer = 0
    /\ reports = {}

SplitMessage ==
    /\ ret.op = "call"
    /\ ret' = [op |-> "split_message", lines |-> ret.lines,
               parts |-> split_message(ret.lines, max_length_of_send)]
    /\ UNCHANGED <<sources, messages, run, conns, writer, reports>>

SplitNext == SplitMessage

SpecSplit == SplitInit /\ [][SplitNext]_vars

\* C10: every part of a text split with budget 4000 has at most 4000
\* characters, also when a single line is longer than the budget.
C10_PartsWithinBudget ==
    ret.op = "split_message" =>
        \A k \in 1..Len(ret.parts) : StrLen(ret.parts[k]) <= max_length_of_send

\* C10 witness: a text with a line longer than the budget was split, one part
\* is a hard slice of exactly 4000 characters and another joins two lines
C10_Witness ==
    /\ ret.op = "split_message"
    /\ \E i \in 1..Len(ret.lines) : ret.lines[i] > max_length_of_send
    /\ \E k \in 1..Len(ret.parts) :
          /\ Len(ret.parts[k]) = 1
          /\ StrLen(ret.parts[k]) = max_length_of_send
          /\ ret.parts[k][1].to < ret.lines[ret.parts[k][1].line]
    /\ \E k \in 1..Len(ret.parts) : \E j \in 1..Len(ret.parts[k]) :
          ret.parts[k][j] = Newline

\* the text whose lines are lines[i..]: "\n".join(lines[i:])
RECURSIVE TextFrom(_, _)
TextFrom(lines, i) ==
    IF i > Len(lines) THEN <<>>
    ELSE Slice(i, 0, lines[i]) \o
         (IF i < Len(lines) THEN <<Newline>> \o TextFrom(lines, i + 1) ELSE <<>>)

\* the parts k.. joined with a newline between consecutive parts
RECURSIVE JoinParts(_, _)
JoinParts(parts, k) ==
    IF k > Len(parts) THEN <<>>
    ELSE parts[k] \o
         (IF k < Len(parts) THEN <<Newline>> \o JoinParts(parts, k + 1) ELSE <<>>)

\* C11: for a text none of whose lines exceeds the budget, the parts joined
\* with a newline between consecutive parts are the original text, blank
\* lines and a trailing newline included.
C11_JoinReproducesText ==
    (/\ ret.op = "split_message"
     /\ \A i \in 1..Len(ret.lines) : ret.lines[i] <= max_length_of_send)
    => JoinParts(ret.parts, 1) = TextFrom(ret.lines, 1)

ReturnTrueOnSendError == TRUE

\* except Exception of send_message: return False
OnSendError == FALSE

AlwaysSplit(lines) == split_message(lines, max_length_of_send)

\* the parts send_message sends for a text: the text itself when it fits,
\* the parts of _split_message otherwise
PartsToSend(lines) ==
    IF StrLen(TextFrom(lines, 1)) <= max_length_of_send
    THEN <<TextFrom(lines, 1)>>
    ELSE split_message(lines, max_length_of_send)

\* TelegramService.send_message; failed_part is the part whose sending raises
\* (0: none does).  sent: the parts that reached the chat
send_message(lines, failed_part) ==
    LET parts == PartsToSend(lines)
    IN IF failed_part \in 1..Len(parts)
       THEN [success |-> OnSendError, sent |-> failed_part - 1, parts |-> Len(parts),
             delivered |-> SubSeq(parts, 1, failed_part - 1)]
       ELSE [success |-> TRUE, sent |-> Len(parts), parts |-> Len(parts),
             delivered |-> parts]

(***************************************************************************)
(* SpecSend: one call of send_message on any text of 1..MaxLines lines;    *)
(* the sending of one part may raise                                       *)
(***************************************************************************)
SendInit ==
    /\ sources = {}
    /\ messages = {}
    /\ reports = {}
    /\ \E n \in 1..MaxLines : \E lines \in [1..n -> LineLengths] :
          ret = [op |-> "call", lines |-> lines]
    /\ run = Unused
    /\ conns = Unused
    /\ writer = 0

SendMessage(failed_part) ==
    /\ ret.op = "call"
    /\ failed_part <= Len(PartsToSend(ret.lines))
    /\ \E r \in {send_message(ret.lines, failed_part)} :
          ret' = [op |-> "send_message", lines |-> ret.lines,
                  failed_part |-> failed_part, success |-> r.success,
                  delivered |-> r.delivered]
    /\ UNCHANGED <<sources, messages, run, conns, writer, reports>>

SendNext == \E failed_part \in 0..(2 * MaxLines) : SendMessage(failed_part)

SpecSend == SendInit /\ [][SendNext]_vars

\* the messages a call without a failure delivers: the text, or its parts
ExpectedParts(lines) ==
    IF StrLen(TextFrom(lines, 1)) <= max_length_of_send
    THEN <<TextFrom(lines, 1)>>
    ELSE split_message(lines, max_length_of_send)

\* C24: send_message delivers a text of at most 4000 characters as one
\* message and a longer text as the parts of _split_message in their order;
\* when the sending of part k raises, parts 1..k-1 were delivered, no later
\* part is, and the call returns False.
C24_SendInOrder ==
    ret.op = "send_message" =>
        /\ ret.success = (ret.failed_part = 0)
        /\ ret.failed_part = 0 => ret.delivered = ExpectedParts(ret.lines)
        /\ ret.failed_part > 0 =>
              ret.delivered = SubSeq(ExpectedParts(ret.lines), 1, ret.failed_part - 1)

\* C24 witness: a text of three parts whose third part failed: the first
\* two were delivered and the call returned False
C24_Witness ==
    /\ ret.op = "send_message"
    /\ Len(ExpectedParts(ret.lines)) = 3
    /\ ret.failed_part = 3
    /\ Len(ret.delivered) = 2
    /\ ret.delivered[1] = ExpectedParts(ret.lines)[1]
    /\ ~ret.success

(***************************************************************************)
(* Summarization client (src/src/bothub_client.py)                         *)
(***************************************************************************)

\* What the chat-completions API does for one request:
\*   transport_ok  FALSE: session.post raises (network error, timeout)
\*   status        the HTTP status
\*   json_ok       FALSE: the body is not JSON, response.json() raises
\*   has_choices   the payload has the key "choices"
\*   n_choices     the length of data["choices"]
\*   content       data["choices"][0]["message"]["content"]; None stands for a
\*                 first choice without that string (missing key or null)
Response(transport_ok, status, json_ok, has_choices, n_choices, content) ==
    [transport_ok |-> transport_ok, status |-> status, json_ok |-> json_ok,
     has_choices |-> has_choices, n_choices |-> n_choices, content |-> content]

Responses ==
    {Response(FALSE, 0, FALSE, FALSE, 0, None),
     Response(TRUE, 500, TRUE, FALSE, 0, None),
     Response(TRUE, 200, FALSE, FALSE, 0, None),
     Response(TRUE, 200, TRUE, FALSE, 0, None),
     Response(TRUE, 200, TRUE, TRUE, 0, None),
     Response(TRUE, 200, TRUE, TRUE, 1, None),
     Response(TRUE, 200, TRUE, TRUE, 1, " "),
     Response(TRUE, 200, TRUE, TRUE, 1, " topics ")}

\* str.strip() on the contents the API returns here
Strip(str) ==
    IF str = " " THEN ""
    ELSE IF str = " topics " THEN "topics"
    ELSE str

\* BotHubClient._send_chat_request: the stripped content of the first choice,
\* or an exception
send_chat_request(response) ==
    IF ~response.transport_ok THEN [raised |-> TRUE, content |-> None]
    ELSE IF response.status # 200 THEN [raised |-> TRUE, content |-> None]
    ELSE IF ~response.json_ok THEN [raised |-> TRUE, content |-> None]
    ELSE IF response.has_choices /\ response.n_choices > 0
    THEN IF response.content = None
         THEN [raised |-> TRUE, content |-> None]
         ELSE [raised |-> FALSE, content |-> Strip(response.content)]
    ELSE [raised |-> TRUE, content |-> None]

ReturnErrorText == "error"

\* except Exception of BotHubClient.generate_digest: return None
OnUpstreamError == None

\* BotHubClient.generate_digest; requests: the requests posted to the API
generate_digest(texts, response) ==
    IF texts = <<>>
    THEN [digest |-> None, raised |-> FALSE, requests |-> 0]
    ELSE LET r == send_chat_request(response)
         IN IF r.raised
            THEN [digest |-> OnUpstreamError, raised |-> FALSE, requests |-> 1]
            ELSE [digest |-> r.content, raised |-> FALSE, requests |-> 1]

(***************************************************************************)
(* Digest engine (src/src/digest_generator.py)                             *)
(***************************************************************************)

\* the representative text of a stored message: "[sender] text", the text
\* alone, or nothing for a message without text
FormatText(msg) ==
    IF Truthy(msg.sender_name) /\ Truthy(msg.text)
    THEN <<[sender |-> msg.sender_name, text |-> msg.text]>>
    ELSE IF Truthy(msg.text)
    THEN <<[sender |-> None, text |-> msg.text]>>
    ELSE <<>>

RECURSIVE MessageTexts(_)
MessageTexts(rows) ==
    IF rows = <<>> THEN <<>>
    ELSE FormatText(Head(rows)) \o MessageTexts(Tail(rows))

NeverNoTexts(message_texts) == FALSE

\* if not message_texts: return None
NoTexts(message_texts) == message_texts = <<>>

\* DigestGenerator.generate_digest_for_chat; called: the summarizer was
\* invoked; texts: the list it was given
generate_digest_for_chat(srcs, msgs, identifier, start_date, end_date, response) ==
    IF ~HasSource(srcs, identifier)
    THEN [digest |-> None, raised |-> FALSE, called |-> FALSE, texts |-> <<>>,
          requests |-> 0]
    ELSE LET rows == get_messages_by_date_range(srcs, msgs, start_date, end_date,
                         SourceRow(srcs, identifier).id)
             message_texts == limit_messages(MessageTexts(rows))
         IN IF rows = <<>> \/ NoTexts(MessageTexts(rows))
            THEN [digest |-> None, raised |-> FALSE, called |-> FALSE, texts |-> <<>>,
                  requests |-> 0]
            ELSE LET r == generate_digest(message_texts, response)
                 IN IF r.raised
                    THEN [digest |-> None, raised |-> FALSE, called |-> TRUE,
                          texts |-> message_texts, requests |-> r.requests]
                    ELSE [digest |-> r.digest, raised |-> FALSE, called |-> TRUE,
                          texts |-> message_texts, requests |-> r.requests]

(***************************************************************************)
(* Report assembler (src/src/report_formatter.py).  A report is kept as    *)
(* its blocks: one per chat, one per channel, and the footer counts.       *)
(***************************************************************************)
Placeholder == "<i>no digest generated</i>"

\* if digest: the digest text, else the placeholder line
DigestLine(digest) == IF Truthy(digest) THEN digest ELSE Placeholder

\* one chat block of _format_chats_section
ChatBlock(identifier, data) ==
    [identifier |-> identifier, title |-> data.info.title,
     username |-> IF Truthy(data.info.username) THEN data.info.username ELSE None,
     count |-> Len(data.messages), digest |-> DigestLine(data.digest)]

\* ReportFormatter._format_message; the texts of the model are short and hold
\* no markup, so truncation and escaping leave them as they are
format_message(msg) == [time |-> msg.date, text |-> msg.text, link |-> msg.link]

\* one channel block of _format_channels_section
ChannelBlock(identifier, msgs) ==
    [identifier |-> identifier, title |-> msgs[1].title,
     username |-> IF Truthy(msgs[1].username) THEN msgs[1].username ELSE None,
     count |-> Len(msgs),
     posts |-> [i \in 1..Len(msgs) |-> format_message(msgs[i])]]

AlwaysInclude(data) == TRUE

\* if chats_data: / if channels_data: the section is appended
IncludeSection(data) == data # <<>>

\* the parts appended to report_parts, in their order
ReportParts(channels_data, chats_data) ==
    <<"header">>
    \o (IF IncludeSection(chats_data) THEN <<"chats">> ELSE <<>>)
    \o (IF IncludeSection(channels_data) THEN <<"channels">> ELSE <<>>)
    \o <<"footer">>

\* ReportFormatter.format_daily_report
format_daily_report(date, channels_data, chats_data) ==
    [date |-> date,
     parts |-> ReportParts(channels_data, chats_data),
     chats |-> [i \in 1..Len(chats_data) |->
                   ChatBlock(chats_data[i].identifier, chats_data[i])],
     channels |-> [i \in 1..Len(channels_data) |->
                      ChannelBlock(channels_data[i].identifier,
                                   channels_data[i].messages)],
     footer |-> [total_chats |-> Len(chats_data),
                 total_chat_messages |->
                     SumSeq([i \in 1..Len(chats_data) |-> Len(chats_data[i].messages)]),
                 total_channels |-> Len(channels_data),
                 total_channel_messages |->
                     SumSeq([i \in 1..Len(channels_data) |->
                                Len(channels_data[i].messages)])]]

(***************************************************************************)
(* Report store (src/src/database.py)                                      *)
(***************************************************************************)

\* ON CONFLICT(date) DO NOTHING: the stored row is kept as it is
OnConflictDoNothing(row, content) == row

\* INSERT OR REPLACE: the row is written anew, sent_at falls back to NULL
OnConflictReplace(row, content) == [row EXCEPT !.content = content, !.sent_at = None]

\* ON CONFLICT(date) DO UPDATE SET content = ?
OnConflictUpdate(row, content) == [row EXCEPT !.content = content]

\* Database.get_report_by_date: SELECT * FROM reports WHERE date = ?; the
\* rows found (fetchone takes one of them, None when there is none)
get_report_by_date(reps, date) == {r \in reps : r.date = date}

\* Database.save_report: INSERT ... ON CONFLICT(date) DO UPDATE SET content;
\* returns cursor.lastrowid, which the update branch leaves at the rowid of
\* the connection's last successful INSERT
save_report(reps, date, content, last_insert_rowid) ==
    IF \E r \in reps : r.date = date
    THEN [reports |-> {IF r.date = date THEN OnConflictUpdate(r, content) ELSE r :
                          r \in reps},
          lastrowid |-> last_insert_rowid]
    ELSE [reports |-> reps \cup {[id |-> NextId(reps), date |-> date,
                                  content |-> content, sent_at |-> None]},
          lastrowid |-> NextId(reps)]

\* Database.mark_report_sent: UPDATE reports SET sent_at = now WHERE id = ?
mark_report_sent(reps, report_id) ==
    {IF r.id = report_id THEN [r EXCEPT !.sent_at = "now"] ELSE r : r \in reps}

(***************************************************************************)
(* SpecArchive: the report table under any sequence of save_report,        *)
(* mark_report_sent and get_report_by_date calls on one connection.  run   *)
(* remembers, for the claims, the content last saved for each date, and    *)
(* the connection's last insert rowid.                                     *)
(***************************************************************************)
Contents == {"report A", "report B"}

ArchiveInit ==
    /\ sources = {}
    /\ messages = {}
    /\ reports = {}
    /\ ret = [op |-> "init"]
    /\ run = [saved |-> [d \in Dates |-> None], last_insert_rowid |-> 0]
    /\ conns = Unused
    /\ writer = 0

ArchiveSave(date, content) ==
    /\ \E r \in {save_report(reports, date, content, run.last_insert_rowid)} :
          /\ reports' = r.reports
          /\ run' = [saved |-> [run.saved EXCEPT ![date] = content],
                     last_insert_rowid |-> r.lastrowid]
          /\ ret' = [op |-> "save_report", date |-> date, content |-> content,
                     before |-> reports, id |-> r.lastrowid]
    /\ UNCHANGED <<sources, messages, conns, writer>>

ArchiveMarkSent(report_id) ==
    /\ reports' = mark_report_sent(reports, report_id)
    /\ ret' = [op |-> "mark_report_sent", id |-> report_id]
    /\ UNCHANGED <<sources, messages, run, conns, writer>>

ArchiveGet(date) ==
    /\ ret' = [op |-> "get_report_by_date", date |-> date,
               rows |-> get_report_by_date(reports, date)]
    /\ UNCHANGED <<sources, messages, run, conns, writer, reports>>

ArchiveNext ==
    \/ \E date \in Dates, content \in Contents : ArchiveSave(date, content)
    \/ \E report_id \in {r.id : r \in reports} : ArchiveMarkSent(report_id)
    \/ \E date \in Dates : ArchiveGet(date)

SpecArchive == ArchiveInit /\ [][ArchiveNext]_vars

\* C12: after any sequence of save_report calls the table holds exactly one
\* row for every date saved and none for any other date, the row of a date
\* carries the content of the latest save for that date, and
\* get_report_by_date finds that row.
C12_OneRowPerDate ==
    /\ \A d \in Dates :
          /\ Cardinality(get_report_by_date(reports, d)) =
                IF run.saved[d] = None THEN 0 ELSE 1
          /\ \A r \in get_report_by_date(reports, d) : r.content = run.saved[d]
    /\ (ret.op = "get_report_by_date" /\ run.saved[ret.date] # None) =>
          /\ Cardinality(ret.rows) = 1
          /\ \A r \in ret.rows : r.date = ret.date /\ r.content = run.saved[ret.date]

\* C12 witness: a date was saved, saved again with another content, another
\* date was saved too, and the first date is read back with the later content
C12_Witness ==
    /\ ret.op = "get_report_by_date"
    /\ Cardinality(reports) = 2
    /\ \E r \in ret.rows : r.content = "report B" /\ r.id = 1
    /\ run.last_insert_rowid = 2

\* C13: save_report for a date that already has a row changes the content of
\* that row and nothing else: its id and its sent_at (NULL or set) stay, and
\* so does every other row.
C13_SavePreservesSentAt ==
    (/\ ret.op = "save_report"
     /\ \E b \in ret.before : b.date = ret.date)
    => /\ \A b \in ret.before :
             IF b.date = ret.date
             THEN [b EXCEPT !.content = ret.content] \in reports
             ELSE b \in reports
       /\ Cardinality(reports) = Cardinality(ret.before)

\* C13 witness: a report that was marked as sent is saved again with another
\* content and still carries its sent_at
C13_Witness ==
    /\ ret.op = "save_report"
    /\ \E b \in ret.before :
          /\ b.date = ret.date
          /\ b.sent_at # None
          /\ b.content # ret.content
          /\ \E r \in reports :
                r.id = b.id /\ r.sent_at = b.sent_at /\ r.content = ret.content

\* Database.get_messages_grouped_by_source: the identifiers in the order of
\* their first message, each with its messages
RECURSIVE GroupBySource(_, _)
GroupBySource(rows, grouped) ==
    IF rows = <<>> THEN grouped
    ELSE LET msg == Head(rows)
         IN IF \E i \in 1..Len(grouped) : grouped[i].identifier = msg.identifier
            THEN GroupBySource(Tail(rows),
                    [i \in 1..Len(grouped) |->
                        IF grouped[i].identifier = msg.identifier
                        THEN [grouped[i] EXCEPT !.messages = Append(@, msg)]
                        ELSE grouped[i]])
            ELSE GroupBySource(Tail(rows),
                    Append(grouped, [identifier |-> msg.identifier,
                                     messages |-> <<msg>>]))

get_messages_grouped_by_source(srcs, msgs, start_date, end_date) ==
    GroupBySource(get_messages_by_date_range(srcs, msgs, start_date, end_date,
                                             NoSourceId), <<>>)

(***************************************************************************)
(* SpecRun: collect_and_report (src/main.py) from the read-back of the     *)
(* window after the collection to the delivery of the report.  The store   *)
(* holds what collections left in it: the configured sources (a channel, a *)
(* chat and a source of another configured type) and any messages of them. *)
(* run holds the locals of the run; digests records, for the claims, what  *)
(* the summarization API did for each chat.                                *)
(***************************************************************************)
RunSources ==
    {[id |-> 1, identifier |-> "@news", type |-> "channel", title |-> "News",
      username |-> "news"],
     [id |-> 2, identifier |-> "@talk", type |-> "chat", title |-> "Talk",
      username |-> None],
     [id |-> 3, identifier |-> "@misc", type |-> "group", title |-> "Misc",
      username |-> None]}

\* the store after collections inserted the given (source, message id, date)
\* messages in the order of their dates
RECURSIVE StoreAll(_, _)
StoreAll(msgs, items) ==
    IF items = {} THEN msgs
    ELSE LET t == CHOOSE t \in items : \A u \in items :
                     \/ t.date < u.date
                     \/ /\ t.date = u.date
                        /\ \/ t.source_id < u.source_id
                           \/ t.source_id = u.source_id /\ t.message_id <= u.message_id
         IN StoreAll(add_message(msgs, t.source_id, t.message_id, t.date,
                                 BodyOf(t)).messages, items \ {t})

\* the subsets of S with at most n elements
RECURSIVE SubsetsUpTo(_, _)
SubsetsUpTo(S, n) ==
    IF n = 0 THEN {{}}
    ELSE LET smaller == SubsetsUpTo(S, n - 1)
         IN smaller \cup {p[1] \cup {p[2]} : p \in smaller \X S}

StoredItems ==
    SubsetsUpTo([source_id : {r.id : r \in RunSources}, message_id : MsgIds,
                 date : Dates], MaxRows)

\* the report of an earlier run for the same date, delivered or not
EarlierReport(date, sent_at) ==
    [id |-> 1, date |-> date,
     content |-> format_daily_report(date, <<>>, <<>>), sent_at |-> sent_at]

\* the undelivered report of the day before, saved by the first run of the
\* database
OtherDateReport ==
    [id |-> 1, date |-> 0,
     content |-> format_daily_report(0, <<>>, <<>>), sent_at |-> None]

\* the ids of the reports marked as sent
SentIds(reps) == {r.id : r \in {x \in reps : x.sent_at # None}}

\* the line lengths of rendered reports: one that fits one message, one of
\* two parts, one with a line that is cut into three
Renderings ==
    {<<max_length_of_send>>, <<max_length_of_send, 1>>,
     <<2 * max_length_of_send + 1>>}

RunInit ==
    /\ sources = RunSources
    /\ \E items \in StoredItems : messages = StoreAll({}, items)
    /\ ret = [op |-> "init"]
    /\ \E rerun \in BOOLEAN, sent_at \in {None, "earlier"}, other \in BOOLEAN :
          /\ reports =
                (IF other THEN {OtherDateReport} ELSE {})
                  \cup (IF rerun
                        THEN {[EarlierReport(1, sent_at) EXCEPT
                                  !.id = IF other THEN 2 ELSE 1]}
                        ELSE {})
          /\ rerun \/ sent_at = None
    /\ \E fresh \in BOOLEAN :
          run = [pc |-> "read", start_date |-> 1, end_date |-> MaxDate,
                 grouped |-> <<>>, k |-> 1, channels_data |-> <<>>,
                 chats_data |-> <<>>, digests |-> <<>>, report |-> <<>>,
                 report_id |-> 0,
                 last_insert_rowid |-> IF fresh THEN Cardinality(messages) ELSE 0,
                 sent_before |-> SentIds(reports)]
    /\ conns = Unused
    /\ writer = 0

\* messages_grouped = await db.get_messages_grouped_by_source(start, end)
ReadBack ==
    /\ run.pc = "read"
    /\ run' = [run EXCEPT !.pc = "routing",
                  !.grouped = get_messages_grouped_by_source(sources, messages,
                                  run.start_date, run.end_date)]
    /\ ret' = [op |-> "get_messages_grouped_by_source"]
    /\ UNCHANGED <<sources, messages, conns, writer, reports>>

\* the response is a failure of the summarization API: an exception, a
\* non-success status, a payload that is malformed or without a choice
IsFailure(response) ==
    \/ ~response.transport_ok
    \/ response.status # 200
    \/ ~response.json_ok
    \/ ~response.has_choices
    \/ response.n_choices = 0
    \/ response.content = None

EveryTypeIsChannel(source_type) == TRUE

\* if source_type == "channel":
IsChannel(source_type) == source_type = "channel"

\* elif source_type == "chat":
IsChat(source_type) == source_type = "chat"

\* one iteration of the routing loop: a channel goes to channels_data, a chat
\* gets its digest and goes to chats_data, any other type is left out; an
\* exception out of the digest generation ends the run in the except clause
RouteSource(response) ==
    /\ run.pc = "routing"
    /\ run.k <= Len(run.grouped)
    /\ LET identifier == run.grouped[run.k].identifier
           msgs == run.grouped[run.k].messages
           source_type == msgs[1].type
       IN IF IsChannel(source_type)
          THEN /\ run' = [run EXCEPT !.k = @ + 1,
                             !.channels_data = Append(@, [identifier |-> identifier,
                                                          messages |-> msgs])]
               /\ ret' = [op |-> "route", identifier |-> identifier,
                          type |-> source_type]
          ELSE IF IsChat(source_type)
          THEN \E d \in {generate_digest_for_chat(sources, messages, identifier,
                              run.start_date, run.end_date, response)} :
                 /\ run' = [run EXCEPT !.k = @ + 1,
                               !.pc = IF d.raised THEN "failed" ELSE @,
                               !.chats_data = Append(@,
                                   [identifier |-> identifier,
                                    info |-> SourceRow(sources, identifier),
                                    digest |-> d.digest, messages |-> msgs]),
                               !.digests = Append(@,
                                   [identifier |-> identifier, called |-> d.called,
                                    failed |-> IsFailure(response),
                                    raised |-> d.raised, digest |-> d.digest])]
                 /\ ret' = [op |-> "route", identifier |-> identifier,
                            type |-> source_type]
          ELSE /\ run' = [run EXCEPT !.k = @ + 1]
               /\ ret' = [op |-> "route", identifier |-> identifier,
                          type |-> source_type]
    /\ UNCHANGED <<sources, messages, conns, writer, reports>>

\* report = formatter.format_daily_report(yesterday_start, channels_data, chats_data)
FormatReport ==
    /\ run.pc = "routing"
    /\ run.k > Len(run.grouped)
    /\ run' = [run EXCEPT !.pc = "formatted",
                  !.report = <<format_daily_report(run.start_date,
                                   run.channels_data, run.chats_data)>>]
    /\ ret' = [op |-> "format_daily_report"]
    /\ UNCHANGED <<sources, messages, conns, writer, reports>>

\* report_id = await db.save_report(date_str, report)
SaveReport ==
    /\ run.pc = "formatted"
    /\ \E r \in {save_report(reports, run.start_date, run.report[1],
                             run.last_insert_rowid)} :
          /\ reports' = r.reports
          /\ run' = [run EXCEPT !.pc = "saved", !.report_id = r.lastrowid]
    /\ ret' = [op |-> "save_report"]
    /\ UNCHANGED <<sources, messages, conns, writer>>

\* the delivery: nothing is sent in test mode; a delivered report is marked
\* as sent, a failed delivery leaves it unmarked.  lines: the line lengths
\* of the rendered report; failed_part: the part whose sending raises
SendReport(send_report, lines, failed_part) ==
    /\ run.pc = "saved"
    /\ failed_part <= Len(PartsToSend(lines))
    /\ IF send_report
       THEN \E r \in {send_message(lines, failed_part)} :
              /\ reports' = IF r.success
                            THEN mark_report_sent(reports, run.report_id)
                            ELSE reports
              /\ ret' = [op |-> "send_message", send_report |-> TRUE,
                         success |-> r.success, failed_part |-> failed_part,
                         sent |-> r.sent, parts |-> r.parts]
       ELSE /\ lines = <<max_length_of_send>>
            /\ failed_part = 0
            /\ reports' = reports
            /\ ret' = [op |-> "send_message", send_report |-> FALSE,
                       success |-> FALSE, failed_part |-> 0, sent |-> 0,
                       parts |-> 0]
    /\ run' = [run EXCEPT !.pc = "done"]
    /\ UNCHANGED <<sources, messages, conns, writer>>

RunNext ==
    \/ ReadBack
    \/ \E response \in Responses : RouteSource(response)
    \/ FormatReport
    \/ SaveReport
    \/ \E send_report \in BOOLEAN, lines \in Renderings, failed_part \in 0..3 :
          SendReport(send_report, lines, failed_part)

SpecRun == RunInit /\ [][RunNext]_vars

\* the chat block of the formatted report for the identifier
ChatBlocksOf(identifier) ==
    {i \in 1..Len(run.report[1].chats) : run.report[1].chats[i].identifier = identifier}

\* C9: for a chat with stored messages in the window, a failure of the
\* summarization API (exception, non-success response, malformed or empty
\* payload) makes generate_digest_for_chat return None without raising; the
\* run goes on (the chat and every source after it are routed, the report is
\* formatted and saved), and the report renders the chat with the
\* no-digest placeholder.
C9_DigestFailureDegrades ==
    /\ \A j \in 1..Len(run.digests) :
          /\ ~run.digests[j].raised
          /\ run.digests[j].failed => run.digests[j].digest = None
          /\ run.digests[j].identifier = run.chats_data[j].identifier
    /\ run.pc = "routing" => Len(run.digests) =
          Cardinality({i \in 1..(run.k - 1) : run.grouped[i].messages[1].type = "chat"})
    /\ run.pc \in {"formatted", "saved", "done"} =>
          /\ \A i \in 1..Len(run.grouped) :
                run.grouped[i].messages[1].type = "chat" =>
                   \E j \in 1..Len(run.digests) :
                      run.digests[j].identifier = run.grouped[i].identifier
          /\ \A j \in 1..Len(run.digests) :
                /\ Cardinality(ChatBlocksOf(run.digests[j].identifier)) = 1
                /\ run.digests[j].failed =>
                      \A i \in ChatBlocksOf(run.digests[j].identifier) :
                         run.report[1].chats[i].digest = Placeholder
    /\ run.pc \in {"saved", "done"} =>
          \E r \in reports : r.date = run.start_date /\ r.content = run.report[1]

\* C9 witness: a finished run in which the summarizer was called for a chat,
\* the API failed, and the saved report shows the chat with the placeholder
C9_Witness ==
    /\ run.pc = "done"
    /\ \E j \in 1..Len(run.digests) :
          /\ run.digests[j].called
          /\ run.digests[j].failed
          /\ \E i \in ChatBlocksOf(run.digests[j].identifier) :
                run.report[1].chats[i].digest = Placeholder
    /\ \E r \in reports : r.content = run.report[1] /\ Len(r.content.chats) > 0

\* C14: after a run whose send returned success the report row of the run's
\* date has a sent_at, whether this run created the row or found it; and
\* save_report returns the id of the row of that date on insert and on
\* overwrite.
C14_DeliveredReportIsMarked ==
    /\ run.pc \in {"saved", "done"} =>
          \E r \in reports : r.date = run.start_date /\ r.id = run.report_id
    /\ (run.pc = "done" /\ ret.success) =>
          \E r \in reports : r.date = run.start_date /\ r.sent_at # None

\* C15: mark_report_sent is called only after send_message returned success
\* for the whole report: up to the delivery, and after it when delivery is
\* suppressed or the sending of any part failed, the rows marked as sent are
\* those that were marked before the run.
C15_MarkOnlyAfterSuccess ==
    (\/ run.pc # "done"
     \/ ~ret.send_report
     \/ ret.failed_part # 0)
    => /\ SentIds(reports) = run.sent_before
       /\ \A r \in reports : r.sent_at # "now"

\* C15 witness: a report of three parts whose last part failed after two
\* parts were sent; the row this run created is not marked
C15_Witness ==
    /\ run.pc = "done"
    /\ ret.send_report
    /\ ret.parts = 3
    /\ ret.failed_part = 3
    /\ ret.sent = 2
    /\ \E r \in reports : r.id = run.report_id /\ r.sent_at = None

\* C16: whatever the collections left in the store and whichever digests
\* fail, the run never ends in its except clause short of the save; from the
\* save on, also after a failed or suppressed delivery, get_report_by_date
\* finds for the date of the window exactly one row, with the content this
\* run computed.
C16_ReportAlwaysSaved ==
    /\ run.pc \in {"read", "routing", "formatted", "saved", "done"}
    /\ run.pc \in {"saved", "done"} =>
          /\ Cardinality(get_report_by_date(reports, run.start_date)) = 1
          /\ \A r \in get_report_by_date(reports, run.start_date) :
                r.content = run.report[1]

\* C16 witness: a run over a date that already had a report, with a digest
\* that failed and a delivery that failed; the row of the date now carries
\* the report of this run
C16_Witness ==
    /\ run.pc = "done"
    /\ ret.send_report
    /\ ~ret.success
    /\ \E j \in 1..Len(run.digests) : run.digests[j].failed
    /\ \E r \in get_report_by_date(reports, run.start_date) :
          /\ r.id = 1
          /\ r.content = run.report[1]
          /\ r.content # EarlierReport(run.start_date, None).content
          /\ run.report_id # NextId({})

\* the rows of the messages in the entries of a mapping
MessagesIn(data) ==
    UNION {{data[i].messages[n].id : n \in 1..Len(data[i].messages)} :
              i \in 1..Len(data)}

\* C22: a formatted report is the header, then the chats section exactly
\* when there are chats, then the channels section exactly when there are
\* channels, then the footer; the footer counts the chats, their messages,
\* the channels and their messages that were passed in.
C22_ReportLayout ==
    run.pc \in {"formatted", "saved", "done"} =>
        LET r == run.report[1]
            n == Len(r.parts)
        IN /\ r.parts[1] = "header"
           /\ r.parts[n] = "footer"
           /\ n = 2 + (IF Len(run.chats_data) > 0 THEN 1 ELSE 0)
                    + (IF Len(run.channels_data) > 0 THEN 1 ELSE 0)
           /\ Len(run.chats_data) > 0 => r.parts[2] = "chats"
           /\ Len(run.channels_data) > 0 => r.parts[n - 1] = "channels"
           /\ r.footer.total_chats = Len(run.chats_data)
           /\ r.footer.total_channels = Len(run.channels_data)
           /\ r.footer.total_chat_messages = Cardinality(MessagesIn(run.chats_data))
           /\ r.footer.total_channel_messages =
                 Cardinality(MessagesIn(run.channels_data))
           /\ Len(r.chats) = Len(run.chats_data)
           /\ Len(r.channels) = Len(run.channels_data)

\* C22 witness: a report with both sections, one chat message and one post
C22_Witness ==
    /\ run.pc = "formatted"
    /\ run.report[1].parts = <<"header", "chats", "channels", "footer">>
    /\ run.report[1].footer.total_chat_messages = 1
    /\ run.report[1].footer.total_channel_messages = 1

\* the entries of a mapping for the identifier
EntriesOf(data, identifier) ==
    {i \in 1..Len(data) : data[i].identifier = identifier}

\* C25: after the routing, a source of stored type chat with messages in
\* the window had exactly one call of the digest generation and has one
\* entry in chats_data with its source row, that digest and its messages;
\* a source of stored type channel has one entry in channels_data with its
\* messages and had no call of the digest generation; no source is in both
\* mappings.
C25_RoutedByStoredKind ==
    run.pc \in {"formatted", "saved", "done"} =>
        /\ \A g \in 1..Len(run.grouped) :
              LET identifier == run.grouped[g].identifier
                  stored == SourceRow(sources, identifier)
              IN /\ stored.type = "chat" =>
                       /\ Cardinality(EntriesOf(run.digests, identifier)) = 1
                       /\ Cardinality(EntriesOf(run.chats_data, identifier)) = 1
                       /\ \A i \in EntriesOf(run.chats_data, identifier) :
                             /\ run.chats_data[i].info = stored
                             /\ run.chats_data[i].messages = run.grouped[g].messages
                             /\ \A j \in EntriesOf(run.digests, identifier) :
                                   run.chats_data[i].digest = run.digests[j].digest
                 /\ stored.type = "channel" =>
                       /\ EntriesOf(run.digests, identifier) = {}
                       /\ Cardinality(EntriesOf(run.channels_data, identifier)) = 1
                       /\ \A i \in EntriesOf(run.channels_data, identifier) :
                             run.channels_data[i].messages = run.grouped[g].messages
        /\ \A i \in 1..Len(run.chats_data) :
              EntriesOf(run.channels_data, run.chats_data[i].identifier) = {}

\* C25 witness: a run that routed a channel and a chat, the chat with a
\* digest from the summarizer
C25_Witness ==
    /\ run.pc = "formatted"
    /\ Len(run.channels_data) = 1
    /\ Len(run.chats_data) = 1
    /\ run.chats_data[1].digest = "topics"
    /\ run.chats_data[1].info.type = "chat"
    /\ run.channels_data[1].messages[1].type = "channel"

(***************************************************************************)
(* SpecMain: one whole run of collect_and_report (src/main.py) on a new    *)
(* database: validation of the configuration, the connections, the         *)
(* collection from the configured sources, the report, the delivery, and   *)
(* the disconnects.  The collection and the report are the steps of        *)
(* SpecCollect and SpecRun.                                                *)
(***************************************************************************)

\* the settings Config.validate checks, in its order
RequiredSettings ==
    <<"TELEGRAM_API_ID", "TELEGRAM_API_HASH", "TELEGRAM_PHONE", "BOTHUB_API_KEY",
      "REPORT_CHAT_ID", "CHANNELS">>

\* a configuration: for each setting, whether the environment sets it to a
\* non-empty value
Configs == [{RequiredSettings[i] : i \in 1..Len(RequiredSettings)} -> BOOLEAN]

ValidateTelegramOnly(cfg) ==
    SelectSeq(SubSeq(RequiredSettings, 1, 3), LAMBDA k : ~cfg[k])

\* Config.validate: the settings that are reported as not set
validate(cfg) == SelectSeq(RequiredSettings, LAMBDA k : ~cfg[k])

\* config.get_channels() of a configuration with CHANNELS set
MainSources == <<<<"@news", "channel">>, <<"@talk", "chat">>>>

\* what the platform does for a source during the run
MainEnvs == {e \in Envs : Len(e.stream) <= 1}

\* sqlite3_last_insert_rowid of the connection after the collection on a new
\* database: the rowid of the last row inserted into any table
LastInsertRowid(srcs, msgs) ==
    IF srcs = {} THEN 0
    ELSE LET last_source == NextId(srcs) - 1
         IN IF \E m \in msgs : m.source_id = last_source
            THEN NextId(msgs) - 1
            ELSE last_source

MainInit ==
    /\ sources = {}
    /\ messages = {}
    /\ reports = {}
    /\ ret = [op |-> "init"]
    /\ \E cfg \in Configs :
          run = [pc |-> "start", config |-> cfg, errors |-> <<>>,
                 sources |-> <<>>, start_date |-> 1, end_date |-> MaxDate,
                 i |-> 1, total_messages |-> 0, total_new |-> 0,
                 failed_sources |-> <<>>, stats |-> <<>>, attempted |-> <<>>,
                 hit |-> 0, hit_added |-> 0, clean_in_window |-> 0,
                 clean_added |-> 0, collected |-> {},
                 grouped |-> <<>>, k |-> 1, channels_data |-> <<>>,
                 chats_data |-> <<>>, digests |-> <<>>, report |-> <<>>,
                 report_id |-> 0, last_insert_rowid |-> 0, sent_before |-> {},
                 collected_window |-> <<>>]
    /\ conns = [db |-> "none", telegram |-> "none"]
    /\ writer = 0

\* errors = config.validate(); if errors: ... return
Validate ==
    /\ run.pc = "start"
    /\ \E errors \in {validate(run.config)} :
          run' = [run EXCEPT !.errors = errors,
                     !.pc = IF errors # <<>> THEN "returned" ELSE "validated"]
    /\ ret' = [op |-> "validate"]
    /\ UNCHANGED <<sources, messages, conns, writer, reports>>

\* TelegramService.connect: it returns, or client.start raises before the
\* client is connected, or sign_in raises on the connected client
ConnectOutcomes == {"connected", "start raises", "sign_in raises"}

\* db.connect(), telegram.connect(), the clients, sources = config.get_channels()
Initialize(connect) ==
    /\ run.pc = "validated"
    /\ conns' = [db |-> "open",
                 telegram |-> IF connect = "start raises" THEN "none" ELSE "open"]
    /\ run' = [run EXCEPT !.pc = IF connect = "connected" THEN "collecting"
                                 ELSE "raised",
                  !.sources = IF connect = "connected" THEN MainSources ELSE @]
    /\ ret' = [op |-> "connect"]
    /\ UNCHANGED <<sources, messages, writer, reports>>

\* today = datetime.now() at midnight, yesterday_start = today - 1 day,
\* yesterday_end = today, for the day the clock shows: the day of the
\* collection, or the next one when midnight has passed since
Yesterday(start_date, end_date, midnight_passed) ==
    IF midnight_passed
    THEN [start_date |-> end_date, end_date |-> end_date + (end_date - start_date)]
    ELSE [start_date |-> start_date, end_date |-> end_date]

\* after collect_yesterday: the window is computed anew from the clock and
\* the report begins; collected_window keeps the window of the collection
BeginReport(midnight_passed) ==
    /\ run.pc = "collected"
    /\ \E w \in {Yesterday(run.start_date, run.end_date, midnight_passed)} :
          run' = [run EXCEPT !.pc = "read",
                     !.start_date = w.start_date,
                     !.end_date = w.end_date,
                     !.collected_window = <<run.start_date, run.end_date>>,
                     !.last_insert_rowid = LastInsertRowid(sources, messages)]
    /\ ret' = [op |-> "collect_yesterday"]
    /\ UNCHANGED <<sources, messages, conns, writer, reports>>

\* finally: telegram.disconnect(), db.disconnect()
Finally ==
    /\ run.pc \in {"done", "failed"}
    /\ conns' = [db |-> "closed", telegram |-> "closed"]
    /\ run' = [run EXCEPT !.pc = "returned"]
    /\ ret' = [op |-> "disconnect"]
    /\ UNCHANGED <<sources, messages, writer, reports>>

MainNext ==
    \/ Validate
    \/ \E connect \in ConnectOutcomes : Initialize(connect)
    \/ \E env \in MainEnvs : CollectSource(env)
    \/ CollectReturn
    \/ \E midnight_passed \in BOOLEAN : BeginReport(midnight_passed)
    \/ RunNext
    \/ Finally

SpecMain == MainInit /\ [][MainNext]_vars

\* the required settings the configuration leaves unset
Missing(cfg) == {k \in DOMAIN cfg : ~cfg[k]}

\* C17: when a required setting is missing the run returns after the
\* validation: no database or messaging connection is ever opened, no source
\* is resolved or fetched, no digest is requested, nothing is sent, and the
\* source, message and report tables stay without a row.
C17_AbortBeforeIO ==
    Missing(run.config) # {} =>
        /\ run.pc \in {"start", "returned"}
        /\ conns = [db |-> "none", telegram |-> "none"]
        /\ run.attempted = <<>>
        /\ run.digests = <<>>
        /\ ret.op \in {"init", "validate"}
        /\ sources = {} /\ messages = {} /\ reports = {}

\* C17 witness: the run returned with the error of a configuration that
\* misses only the chat to report to
C17_Witness ==
    /\ run.pc = "returned"
    /\ run.errors = <<"REPORT_CHAT_ID">>
    /\ Missing(run.config) = {"REPORT_CHAT_ID"}
    /\ conns.db = "none"

(***************************************************************************)
(* HTML escaping (src/src/report_formatter.py, _escape_html).  A text is   *)
(* the sequence of its characters.                                         *)
(***************************************************************************)
MaxChars == 4

\* the characters of the texts: the three special ones and a plain one
EscapeChars == {"&", "<", ">", "A"}

\* the text of the example and what it renders as
ExampleText ==
    <<"A", " ", "&", " ", "<", "b", ">", "b", "o", "l", "d", "<", "/",
    "b", ">">>

ExampleEscaped ==
    <<"A", " ", "&", "a", "m", "p", ";", " ", "&", "l", "t", ";", "b",
    "&", "g", "t", ";", "b", "o", "l", "d", "&", "l", "t", ";", "/", "b",
    "&", "g", "t", ";">>

\* the replacements dictionary, in its order
Replacements ==
    <<[old |-> "&", new |-> <<"&", "a", "m", "p", ";">>],
      [old |-> "<", new |-> <<"&", "l", "t", ";">>],
      [old |-> ">", new |-> <<"&", "g", "t", ";">>]>>

\* text.replace(old, new) for a one-character old
RECURSIVE Replace(_, _, _)
Replace(text, old, new) ==
    IF text = <<>> THEN <<>>
    ELSE (IF Head(text) = old THEN new ELSE <<Head(text)>>)
         \o Replace(Tail(text), old, new)

\* the replacements applied with the ampersand last
EscapeAmpersandLast(text) ==
    Replace(Replace(Replace(text, Replacements[2].old, Replacements[2].new),
                    Replacements[3].old, Replacements[3].new),
            Replacements[1].old, Replacements[1].new)

\* ReportFormatter._escape_html: for old, new in replacements.items():
\* text = text.replace(old, new)
escape_html(text) ==
    Replace(Replace(Replace(text, Replacements[1].old, Replacements[1].new),
                    Replacements[2].old, Replacements[2].new),
            Replacements[3].old, Replacements[3].new)

(***************************************************************************)
(* SpecEscape: _escape_html on any text of up to MaxChars characters and   *)
(* on the text of the example                                              *)
(***************************************************************************)
EscapeInit ==
    /\ sources = {}
    /\ messages = {}
    /\ reports = {}
    /\ \E text \in UNION {[1..n -> EscapeChars] : n \in 0..MaxChars} \cup {ExampleText} :
          ret = [op |-> "call", text |-> text]
    /\ run = Unused
    /\ conns = Unused
    /\ writer = 0

EscapeHtml ==
    /\ ret.op = "call"
    /\ ret' = [op |-> "escape_html", text |-> ret.text, out |-> escape_html(ret.text)]
    /\ UNCHANGED <<sources, messages, run, conns, writer, reports>>

EscapeNext == EscapeHtml

SpecEscape == EscapeInit /\ [][EscapeNext]_vars

\* the entity of one character, or the character itself
EntityOf(c) ==
    IF c = "&" THEN <<"&", "a", "m", "p", ";">>
    ELSE IF c = "<" THEN <<"&", "l", "t", ";">>
    ELSE IF c = ">" THEN <<"&", "g", "t", ";">>
    ELSE <<c>>

\* the character-by-character substitution of a text
RECURSIVE Substituted(_)
Substituted(text) ==
    IF text = <<>> THEN <<>> ELSE EntityOf(Head(text)) \o Substituted(Tail(text))

\* C21: the escaped text is the character-by-character substitution of
\* & by &amp;, < by &lt; and > by &gt; (no ampersand of an entity is escaped
\* again), and 'A & <b>bold</b>' gives 'A &amp; &lt;b&gt;bold&lt;/b&gt;'.
C21_EscapeIsSubstitution ==
    ret.op = "escape_html" =>
        /\ ret.out = Substituted(ret.text)
        /\ ret.text = ExampleText => ret.out = ExampleEscaped

\* C21 witness: the example was escaped to the expected text
C21_Witness ==
    /\ ret.op = "escape_html"
    /\ ret.text = ExampleText
    /\ ret.out = ExampleEscaped

\* C27: from the read-back on, the window the run reads messages with,
\* requests digests for and dates the saved report by is the window the
\* collection fetched, also when midnight passed after the collection.
C27_OneWindowPerRun ==
    /\ run.pc \in {"read", "routing", "formatted", "saved", "done", "failed"} =>
          <<run.start_date, run.end_date>> = run.collected_window
    /\ (run.pc \in {"saved", "done"} /\ run.collected_window # <<>>) =>
          \E r \in reports : r.date = run.collected_window[1]

\* the number of message rows of the grouped sources
RECURSIVE RowsReturned(_)
RowsReturned(grouped) ==
    IF grouped = <<>> THEN 0
    ELSE Len(Head(grouped).messages) + RowsReturned(Tail(grouped))

\* C28: after the routing, every source with a stored message in the window
\* is in exactly one of chats_data and channels_data, whatever its type,
\* and the message counts of the footer add up to the number of rows the
\* window query returned.
C28_EverySourceReported ==
    run.pc \in {"formatted", "saved", "done"} =>
        /\ \A g \in 1..Len(run.grouped) :
              Cardinality(EntriesOf(run.chats_data, run.grouped[g].identifier))
                + Cardinality(EntriesOf(run.channels_data,
                                        run.grouped[g].identifier)) = 1
        /\ run.report[1].footer.total_chat_messages
             + run.report[1].footer.total_channel_messages
             = RowsReturned(run.grouped)

\* C29: a run changes only the report row of its own date: the report row
\* of another date keeps its content and its sent_at through the run, also
\* when the run saves over an existing report of its date.
C29_OtherDatesUntouched ==
    \A r \in reports : r.date # run.start_date => r = OtherDateReport

\* C30: when a run is over, by its return or by an exception out of it,
\* the database connection it opened is closed and the Telegram client it
\* connected is disconnected.
C30_ConnectionsReleased ==
    run.pc \in {"returned", "raised"} =>
        /\ conns.db # "open"
        /\ conns.telegram # "open"

(***************************************************************************)
(* SpecDigest: one call of generate_digest_for_chat on a store that        *)
(* collections left, for a chat, a channel or an identifier that was never *)
(* collected, and any response of the summarization API                    *)
(***************************************************************************)
DigestInit ==
    /\ sources = RunSources
    /\ \E items \in StoredItems : messages = StoreAll({}, items)
    /\ reports = {}
    /\ ret = [op |-> "call"]
    /\ run = Unused
    /\ conns = Unused
    /\ writer = 0

GenerateDigestForChat(identifier, start_date, response) ==
    /\ ret.op = "call"
    /\ \E d \in {generate_digest_for_chat(sources, messages, identifier, start_date,
                                          MaxDate, response)} :
          ret' = [op |-> "generate_digest_for_chat", identifier |-> identifier,
                  start_date |-> start_date, end_date |-> MaxDate,
                  digest |-> d.digest, called |-> d.called, raised |-> d.raised,
                  requests |-> d.requests, failed |-> IsFailure(response)]
    /\ UNCHANGED <<sources, messages, run, conns, writer, reports>>

DigestNext ==
    \E identifier \in {"@news", "@talk", "@gone"}, start_date \in {0, 1},
       response \in Responses :
        GenerateDigestForChat(identifier, start_date, response)

SpecDigest == DigestInit /\ [][DigestNext]_vars

\* the rows of the identifier in the window of the call
RowsOfCall ==
    {m \in InWindow(ret.start_date, ret.end_date, NoSourceId) :
        \E s \in sources : s.identifier = ret.identifier /\ s.id = m.source_id}

\* C23: a call of generate_digest_for_chat posts at most one request to the
\* summarization API, also when the request fails; when the source is
\* unknown, the window holds no message of it, or no message of it in the
\* window has a text, the summarizer is not called at all and the result is
\* None.
C23_AtMostOneRequest ==
    ret.op = "generate_digest_for_chat" =>
        /\ ret.requests <= 1
        /\ ret.called => ret.requests = 1
        /\ (\/ ~HasSource(sources, ret.identifier)
            \/ RowsOfCall = {}
            \/ \A m \in RowsOfCall : ~Truthy(m.text))
           => (~ret.called /\ ret.requests = 0 /\ ret.digest = None)

\* C23 witness: the chat has a message in the window, none with a text; the
\* summarizer was not called
C23_Witness ==
    /\ ret.op = "generate_digest_for_chat"
    /\ RowsOfCall # {}
    /\ \A m \in RowsOfCall : m.text = ""
    /\ ~ret.called
    /\ ret.digest = None

====
